---- MODULE Spec2Model ----
(***************************************************************************)
(* A model of the two Flask programs of python-web-lab:                    *)
(*   project_cadastro_usuario (app.py, banco.py): customer registration    *)
(*   tela_login (main.py, banco.py): registration, login, session gate     *)
(*                                                                         *)
(* Text is a sequence of one-character strings, so that str.strip() is     *)
(* computed rather than assumed.  A process runs one of the two programs;  *)
(* the variable app says which.  A handler of tela_login that makes two    *)
(* calls to banco (each opens its own connection) is two steps, since the  *)
(* development server runs handlers of different clients on threads.       *)
(***************************************************************************)
EXTENDS Integers, Sequences, FiniteSets, TLC

VARIABLES
    app,        \* the program this process runs: "clientes" or "login"
    clientes,   \* table clientes of clientes.db: sequence of rows
    usuarios,   \* table usuarios of usuarios.db: sequence of rows
    registros,  \* history: registros[i] is the form whose request inserted usuarios[i]
    session,    \* session[c]: the session cookie of client c, a dict of the keys main.py writes
    emCurso,    \* emCurso[c]: request.form of c's POST /cadastro suspended before the insert
    logado,     \* history: logado[c] iff c logged in successfully and has not logged out since
    req,        \* the request whose handler took the last step
    resp        \* its response (Pendente while the handler is suspended)

vars == <<app, clientes, usuarios, registros, session, emCurso, logado, req, resp>>

-----------------------------------------------------------------------------
(* Bounds and input sets *)

MaxClientes == 3

Clients == {"c1", "c2"}

\* the fields a client may post to project_cadastro_usuario
ClienteNomes  == {<<>>, <<"n">>, <<" ", "m">>}
ClienteEmails == {<<>>, <<"a">>, <<"b", " ">>}

\* the fields a client may post to tela_login: /cadastro takes FormSenhas,
\* /login also the same password without its trailing blank, and another
FormNomes   == {<<>>, <<" ">>, <<" ", "n">>}
FormEmails  == {<<>>, <<"a">>, <<"b">>}
FormSenhas  == {<<>>, <<"p", " ">>}
LoginSenhas == FormSenhas \cup {<<"p">>, <<"q">>}

\* the salts generate_password_hash may draw
Salts == {"s1", "s2"}

-----------------------------------------------------------------------------
(* Python helpers *)

IsSpace(ch) == ch \in {" ", "\t", "\n"}

RECURSIVE lstrip(_)
lstrip(s) == IF s = <<>> THEN s
             ELSE IF IsSpace(Head(s)) THEN lstrip(Tail(s)) ELSE s

RECURSIVE rstrip(_)
rstrip(s) == IF s = <<>> THEN s
             ELSE IF IsSpace(s[Len(s)]) THEN rstrip(SubSeq(s, 1, Len(s) - 1)) ELSE s

strip(s) == rstrip(lstrip(s))

\* None, and Python's truth value of None or a row tuple
None == <<>>
Truthy(v) == v # None

\* a dict with no keys (an empty session, the form of a GET)
EmptyDict == [k \in {} |-> 0]

DictSet(d, key, val) ==
    [k \in (DOMAIN d) \cup {key} |-> IF k = key THEN val ELSE d[k]]

-----------------------------------------------------------------------------
(* Responses *)

Pendente == [status |-> 0, flash |-> <<>>, location |-> "", template |-> "", context |-> EmptyDict]

Redirect(endpoint, mensagem, categoria) ==
    [status |-> 302, flash |-> <<mensagem, categoria>>, location |-> endpoint,
     template |-> "", context |-> EmptyDict]

Render(template, context) ==
    [status |-> 200, flash |-> <<>>, location |-> "", template |-> template,
     context |-> context]

\* an exception that leaves the handler: Flask answers 500
InternalServerError ==
    [status |-> 500, flash |-> <<>>, location |-> "", template |-> "", context |-> EmptyDict]

Request(c, method, route, form) ==
    [client |-> c, method |-> method, route |-> route, form |-> form]

-----------------------------------------------------------------------------
(* SQLite *)

RECURSIVE MaxId(_)
MaxId(table) == IF table = <<>> THEN 0
                ELSE LET m == MaxId(Tail(table))
                     IN IF Head(table).id > m THEN Head(table).id ELSE m

\* INTEGER PRIMARY KEY AUTOINCREMENT; no row is ever deleted, so the largest
\* rowid ever used is the largest rowid in the table
AutoIncrement(table) == MaxId(table) + 1

-----------------------------------------------------------------------------
(* project_cadastro_usuario/banco.py *)

\* the INSERT with its two values in the wrong order
inserir_cliente_trocado(table, nome, email) ==
    Append(table, [id |-> AutoIncrement(table), nome |-> email, email |-> nome])

inserir_cliente(table, nome, email) ==
    Append(table, [id |-> AutoIncrement(table), nome |-> nome, email |-> email])

listar_clientes(table) ==
    [i \in 1..Len(table) |-> <<table[i].id, table[i].nome, table[i].email>>]

(* project_cadastro_usuario/app.py *)

SalvarValido(nome, email) == ~(nome = <<>> \/ email = <<>>)

Index(c) ==
    /\ app = "clientes"
    /\ req' = Request(c, "GET", "/", EmptyDict)
    /\ resp' = Render("index.html", EmptyDict)
    /\ UNCHANGED <<app, clientes, usuarios, registros, session, emCurso, logado>>

Salvar(c, form) ==
    /\ app = "clientes"
    /\ req' = Request(c, "POST", "/salvar", form)
    /\ LET nome  == strip(form.nome)
           email == strip(form.email)
       IN IF ~SalvarValido(nome, email)
          THEN /\ resp' = Redirect("index", "Preencha todos os campos!", "danger")
               /\ UNCHANGED clientes
          ELSE /\ Len(clientes) < MaxClientes
               /\ clientes' = inserir_cliente(clientes, nome, email)
               /\ resp' = Redirect("listar", "Cliente cadastrado com sucesso!", "success")
    /\ UNCHANGED <<app, usuarios, registros, session, emCurso, logado>>

Listar(c) ==
    /\ app = "clientes"
    /\ req' = Request(c, "GET", "/listar", EmptyDict)
    /\ resp' = Render("listar.html", [usuarios |-> listar_clientes(clientes)])
    /\ UNCHANGED <<app, clientes, usuarios, registros, session, emCurso, logado>>

-----------------------------------------------------------------------------
(* tela_login/banco.py *)

\* werkzeug's key derivation, taken as injective in (salt, password)
Digest(salt, senha) == <<salt, senha>>

generate_password_hash(senha, salt) == [salt |-> salt, digest |-> Digest(salt, senha)]

check_password_hash(senha_hash, senha) == senha_hash.digest = Digest(senha_hash.salt, senha)

\* the table created without UNIQUE on email
EmailUnique_ausente(table, email) == TRUE

\* the UNIQUE constraint on email, as the INSERT tests it
EmailUnique(table, email) == \A i \in 1..Len(table) : table[i].email # email

\* INSERT OR REPLACE with the id fixed at 1
inserir_usuario_substitui(table, nome, email, senha, salt) ==
    LET row == [id |-> 1, nome |-> nome, email |-> email,
                senha |-> generate_password_hash(senha, salt)]
    IN IF table = <<>> THEN <<row>> ELSE <<row>> \o Tail(table)

inserir_usuario(table, nome, email, senha, salt) ==
    Append(table, [id |-> AutoIncrement(table), nome |-> nome, email |-> email,
                   senha |-> generate_password_hash(senha, salt)])

\* the SELECT with WHERE nome = ? in place of WHERE email = ?
RECURSIVE buscar_usuario_por_nome(_, _)
buscar_usuario_por_nome(table, email) ==
    IF table = <<>> THEN None
    ELSE IF Head(table).nome = email
         THEN <<Head(table).id, Head(table).nome, Head(table).senha>>
         ELSE buscar_usuario_por_nome(Tail(table), email)

RECURSIVE buscar_usuario_por_email(_, _)
buscar_usuario_por_email(table, email) ==
    IF table = <<>> THEN None
    ELSE IF Head(table).email = email
         THEN <<Head(table).id, Head(table).nome, Head(table).senha>>
         ELSE buscar_usuario_por_email(Tail(table), email)

\* the stored hash checked against itself
verificar_senha_sempre(senha_hash, senha_digitada) == senha_hash = senha_hash

verificar_senha(senha_hash, senha_digitada) == check_password_hash(senha_hash, senha_digitada)

-----------------------------------------------------------------------------
(* tela_login/main.py *)

LoginValido(email, senha) == ~(email = <<>> \/ senha = <<>>)

\* usuario[0], usuario[1], usuario[2] of the source are usuario[1], [2], [3] here
Autenticado(usuario, senha) == Truthy(usuario) /\ verificar_senha(usuario[3], senha)

\* the login that forgets session["usuario_nome"]
SessionLogin_so_id(sess, usuario) == DictSet(sess, "usuario_id", usuario[1])

SessionLogin(sess, usuario) ==
    DictSet(DictSet(sess, "usuario_id", usuario[1]), "usuario_nome", usuario[2])

\* the login that tells an unknown email from a wrong password
login_revela_email(table, sess, form) ==
    LET email == strip(form.email)
        senha == strip(form.senha)
    IN IF ~LoginValido(email, senha)
       THEN [resp |-> Redirect("login", "Preencha todos os campos!", "danger"), session |-> sess]
       ELSE LET usuario == buscar_usuario_por_email(table, email)
            IN IF ~Truthy(usuario)
               THEN [resp |-> Redirect("login", "Email nao encontrado!", "danger"),
                     session |-> sess]
               ELSE IF verificar_senha(usuario[3], senha)
               THEN [resp |-> Redirect("dashboard", "Login realizado com sucesso!", "success"),
                     session |-> SessionLogin(sess, usuario)]
               ELSE [resp |-> Redirect("login", "Senha incorreta!", "danger"),
                     session |-> sess]

\* the login that clears the session when it fails
login_limpa_sessao(table, sess, form) ==
    LET email == strip(form.email)
        senha == strip(form.senha)
    IN IF ~LoginValido(email, senha)
       THEN [resp |-> Redirect("login", "Preencha todos os campos!", "danger"),
             session |-> EmptyDict]
       ELSE LET usuario == buscar_usuario_por_email(table, email)
            IN IF Autenticado(usuario, senha)
               THEN [resp |-> Redirect("dashboard", "Login realizado com sucesso!", "success"),
                     session |-> SessionLogin(sess, usuario)]
               ELSE [resp |-> Redirect("login", "Email ou senha incorretos!", "danger"),
                     session |-> EmptyDict]

\* the handler of POST /login on a store and a session: the response and the session after
login(table, sess, form) ==
    LET email == strip(form.email)
        senha == strip(form.senha)
    IN IF ~LoginValido(email, senha)
       THEN [resp |-> Redirect("login", "Preencha todos os campos!", "danger"), session |-> sess]
       ELSE LET usuario == buscar_usuario_por_email(table, email)
            IN IF Autenticado(usuario, senha)
               THEN [resp |-> Redirect("dashboard", "Login realizado com sucesso!", "success"),
                     session |-> SessionLogin(sess, usuario)]
               ELSE [resp |-> Redirect("login", "Email ou senha incorretos!", "danger"),
                     session |-> sess]

\* one session kept for every client (a module-level dict, not the cookie)
SessionSave_global(sessions, c, sess) == [x \in DOMAIN sessions |-> sess]

\* the response sets the session cookie of the client that made the request
SessionSave(sessions, c, sess) == [sessions EXCEPT ![c] = sess]

Ocioso(c) == app = "login" /\ emCurso[c] = None

LoginGet(c) ==
    /\ Ocioso(c)
    /\ req' = Request(c, "GET", "/login", EmptyDict)
    /\ resp' = Render("login.html", EmptyDict)
    /\ UNCHANGED <<app, clientes, usuarios, registros, session, emCurso, logado>>

LoginPost(c, form) ==
    /\ Ocioso(c)
    /\ req' = Request(c, "POST", "/login", form)
    /\ LET r == login(usuarios, session[c], form)
       IN /\ resp' = r.resp
          /\ session' = SessionSave(session, c, r.session)
          /\ logado' = [logado EXCEPT ![c] = (r.resp.location = "dashboard") \/ @]
    /\ UNCHANGED <<app, clientes, usuarios, registros, emCurso>>

CadastroGet(c) ==
    /\ Ocioso(c)
    /\ req' = Request(c, "GET", "/cadastro", EmptyDict)
    /\ resp' = Render("cadastro.html", EmptyDict)
    /\ UNCHANGED <<app, clientes, usuarios, registros, session, emCurso, logado>>

\* the validation that forgets the password
CadastroValido_sem_senha(nome, email, senha) == ~(nome = <<>> \/ email = <<>>)

CadastroValido(nome, email, senha) == ~(nome = <<>> \/ email = <<>> \/ senha = <<>>)

\* POST /cadastro up to the existence check (main.py 106-121)
CadastroPost(c, form) ==
    /\ Ocioso(c)
    /\ req' = Request(c, "POST", "/cadastro", form)
    /\ LET nome  == strip(form.nome)
           email == strip(form.email)
           senha == strip(form.senha)
       IN IF ~CadastroValido(nome, email, senha)
          THEN /\ resp' = Redirect("cadastro", "Preencha todos os campos!", "danger")
               /\ UNCHANGED emCurso
          ELSE IF Truthy(buscar_usuario_por_email(usuarios, email))
               THEN /\ resp' = Redirect("cadastro", "Este email ja esta cadastrado!", "danger")
                    /\ UNCHANGED emCurso
               ELSE /\ resp' = Pendente
                    /\ emCurso' = [emCurso EXCEPT ![c] = form]
    /\ UNCHANGED <<app, clientes, usuarios, registros, session, logado>>

\* POST /cadastro from the insert on (main.py 123-128)
CadastroInserir(c, salt) ==
    /\ app = "login"
    /\ emCurso[c] # None
    /\ req' = Request(c, "POST", "/cadastro", emCurso[c])
    /\ emCurso' = [emCurso EXCEPT ![c] = None]
    /\ LET nome  == strip(emCurso[c].nome)
           email == strip(emCurso[c].email)
           senha == strip(emCurso[c].senha)
       IN IF EmailUnique(usuarios, email)
          THEN /\ usuarios' = inserir_usuario(usuarios, nome, email, senha, salt)
               /\ registros' = Append(registros, emCurso[c])
               /\ resp' = Redirect("login", "Cadastro realizado! Faca login.", "success")
          ELSE \* sqlite3.IntegrityError, caught nowhere
               /\ resp' = InternalServerError
               /\ UNCHANGED <<usuarios, registros>>
    /\ UNCHANGED <<app, clientes, session, logado>>

\* the dashboard without its gate
dashboard_sem_gate(sess) ==
    Render("dashboard.html",
           [nome |-> IF "usuario_nome" \in DOMAIN sess THEN sess["usuario_nome"] ELSE <<>>])

dashboard(sess) ==
    IF "usuario_id" \notin DOMAIN sess
    THEN Redirect("login", "Faca login para acessar!", "danger")
    ELSE Render("dashboard.html", [nome |-> sess["usuario_nome"]])

Dashboard(c) ==
    /\ Ocioso(c)
    /\ req' = Request(c, "GET", "/dashboard", EmptyDict)
    /\ resp' = dashboard(session[c])
    /\ UNCHANGED <<app, clientes, usuarios, registros, session, emCurso, logado>>

\* session.pop("usuario_id") in place of session.clear()
SessionClear_so_id(sess) == [k \in (DOMAIN sess) \ {"usuario_id"} |-> sess[k]]

\* session.clear()
SessionClear(sess) == EmptyDict

Logout(c) ==
    /\ Ocioso(c)
    /\ req' = Request(c, "GET", "/logout", EmptyDict)
    /\ session' = SessionSave(session, c, SessionClear(session[c]))
    /\ resp' = Redirect("login", "Voce saiu da conta.", "success")
    /\ logado' = [logado EXCEPT ![c] = FALSE]
    /\ UNCHANGED <<app, clientes, usuarios, registros, emCurso>>

-----------------------------------------------------------------------------
(* The specification *)

Init ==
    /\ app \in {"clientes", "login"}
    /\ clientes = <<>>
    /\ usuarios = <<>>
    /\ registros = <<>>
    /\ session = [c \in Clients |-> EmptyDict]
    /\ emCurso = [c \in Clients |-> None]
    /\ logado = [c \in Clients |-> FALSE]
    /\ req = Request("c1", "GET", "", EmptyDict)
    /\ resp = Pendente

Next ==
    \/ \E c \in Clients : Index(c)
    \/ \E c \in Clients, nome \in ClienteNomes, email \in ClienteEmails :
          Salvar(c, [nome |-> nome, email |-> email])
    \/ \E c \in Clients : Listar(c)
    \/ \E c \in Clients : LoginGet(c)
    \/ \E c \in Clients, email \in FormEmails, senha \in LoginSenhas :
          LoginPost(c, [email |-> email, senha |-> senha])
    \/ \E c \in Clients : CadastroGet(c)
    \/ \E c \in Clients, nome \in FormNomes, email \in FormEmails, senha \in FormSenhas :
          CadastroPost(c, [nome |-> nome, email |-> email, senha |-> senha])
    \/ \E c \in Clients, salt \in Salts : CadastroInserir(c, salt)
    \/ \E c \in Clients : Dashboard(c)
    \/ \E c \in Clients : Logout(c)

Spec == Init /\ [][Next]_vars

-----------------------------------------------------------------------------
(* Vocabulary of the properties *)

\* the request of the last step
EhPost(route) == req.method = "POST" /\ req.route = route
EhGet(route)  == req.method = "GET" /\ req.route = route

\* a User with this email is stored
Cadastrado(table, email) == \E i \in 1..Len(table) : table[i].email = email

\* the store without the User of this email
SemUsuario(table, email) == SelectSeq(table, LAMBDA u : u.email # email)

\* senha is the password the User of this email registered, as the handlers read it
SenhaDoCadastro(email, senha) ==
    \E i \in 1..Len(usuarios) :
        usuarios[i].email = email /\ strip(registros[i].senha) = senha

TemSessao(sess) == "usuario_id" \in DOMAIN sess

ErroDeValidacao(endpoint) == Redirect(endpoint, "Preencha todos os campos!", "danger")

-----------------------------------------------------------------------------
(* C1: a GET /dashboard by a client with no active Session redirects to   *)
(* Login and does not render the authenticated view; made after a          *)
(* successful login and before any logout it renders the view with the     *)
(* Session's stored user_name; made after a logout and before another      *)
(* successful login it redirects to Login again.                           *)
C1_DashboardGate ==
    EhGet("/dashboard") =>
        LET c == req.client
        IN /\ ~TemSessao(session[c]) =>
                 /\ resp.status = 302
                 /\ resp.location = "login"
                 /\ resp.template # "dashboard.html"
           /\ logado[c] =>
                 /\ "usuario_nome" \in DOMAIN session[c]
                 /\ resp = Render("dashboard.html", [nome |-> session[c]["usuario_nome"]])
           /\ ~logado[c] =>
                 resp = Redirect("login", "Faca login para acessar!", "danger")

\* the dashboard rendered for a logged-in client while the other client,
\* registered too, has logged out
C1_Witness ==
    /\ EhGet("/dashboard")
    /\ logado[req.client]
    /\ resp.status = 200
    /\ resp.context = [nome |-> <<"n">>]
    /\ Len(usuarios) = 2

-----------------------------------------------------------------------------
(* C2: for a login POST with non-empty email and password, the outcome     *)
(* (flash message, redirect target, Session after) when the email belongs  *)
(* to a registered User and the password is wrong equals the outcome of    *)
(* the same request on the same store without that User.                   *)
C2_SameOutcome ==
    \A c \in Clients, email \in FormEmails \cup {<<" ">>, <<" ", "a">>},
       senha \in LoginSenhas \cup {<<" ">>} :
        LET form == [email |-> email, senha |-> senha]
        IN (/\ email # <<>>
            /\ senha # <<>>
            /\ Cadastrado(usuarios, strip(email))
            /\ ~SenhaDoCadastro(strip(email), strip(senha)))
           => login(usuarios, session[c], form)
                = login(SemUsuario(usuarios, strip(email)), session[c], form)

\* a login with a registered email and a wrong password was answered, by a
\* client that holds a Session
C2_Witness ==
    /\ EhPost("/login")
    /\ req.form.email # <<>>
    /\ req.form.senha # <<>>
    /\ Cadastrado(usuarios, strip(req.form.email))
    /\ ~SenhaDoCadastro(strip(req.form.email), strip(req.form.senha))
    /\ resp.flash = <<"Email ou senha incorretos!", "danger">>
    /\ TemSessao(session[req.client])

-----------------------------------------------------------------------------
(* C3: a registration POST whose fields are all non-empty and whose email  *)
(* is the email of a stored User is answered with the duplicate-email      *)
(* error on the registration form, inserts nothing and leaves the store    *)
(* as it was.                                                              *)
ChegaCadastro(c) ==
    /\ req'.method = "POST"
    /\ req'.route = "/cadastro"
    /\ req'.client = c
    /\ emCurso[c] = None

EmailDuplicado == Redirect("cadastro", "Este email ja esta cadastrado!", "danger")

C3_Original ==
    [][\A c \in Clients :
          (/\ ChegaCadastro(c)
           /\ req'.form.nome # <<>>
           /\ req'.form.email # <<>>
           /\ req'.form.senha # <<>>
           /\ Cadastrado(usuarios, req'.form.email))
          => /\ resp' = EmailDuplicado
             /\ usuarios' = usuarios
             /\ emCurso' = emCurso]_vars

\* C3 as amended: the fields are non-empty once stripped of surrounding
\* whitespace, and the email is compared stripped
C3_DuplicateRejected ==
    [][\A c \in Clients :
          (/\ ChegaCadastro(c)
           /\ strip(req'.form.nome) # <<>>
           /\ strip(req'.form.email) # <<>>
           /\ strip(req'.form.senha) # <<>>
           /\ Cadastrado(usuarios, strip(req'.form.email)))
          => /\ resp' = EmailDuplicado
             /\ usuarios' = usuarios
             /\ emCurso' = emCurso]_vars

\* a second registration of the email of the second stored User, rejected
C3_Witness ==
    /\ EhPost("/cadastro")
    /\ resp = EmailDuplicado
    /\ Len(usuarios) = 2
    /\ usuarios[2].email = strip(req.form.email)

-----------------------------------------------------------------------------
(* C4: no two User rows have the same email, in every reachable state,     *)
(* also when two registrations of one email both pass the handler's        *)
(* existence check before either inserts.                                  *)
C4_UniqueEmail ==
    \A i, j \in 1..Len(usuarios) :
        i # j => usuarios[i].email # usuarios[j].email

\* two registrations of one email passed the check; one inserted and the
\* insert of the other was refused by the store
C4_Witness ==
    /\ EhPost("/cadastro")
    /\ resp = InternalServerError
    /\ Cadastrado(usuarios, strip(req.form.email))

-----------------------------------------------------------------------------
(* C5: a submission with an empty required field creates no row and is     *)
(* answered with the validation error: POST /salvar with empty name or     *)
(* email leaves clientes unchanged, POST /cadastro with empty name, email  *)
(* or password leaves usuarios unchanged, whatever else is submitted or    *)
(* stored.                                                                 *)
C5_EmptyFieldRejected ==
    [][/\ (/\ req'.method = "POST"
           /\ req'.route = "/salvar"
           /\ (req'.form.nome = <<>> \/ req'.form.email = <<>>))
          => /\ clientes' = clientes
             /\ resp' = ErroDeValidacao("index")
       /\ (/\ req'.method = "POST"
           /\ req'.route = "/cadastro"
           /\ (req'.form.nome = <<>> \/ req'.form.email = <<>> \/ req'.form.senha = <<>>))
          => /\ usuarios' = usuarios
             /\ emCurso' = emCurso
             /\ resp' = ErroDeValidacao("cadastro")]_vars

\* a registration with only the password empty, for an email not yet
\* stored, answered with the validation error on a non-empty store
C5_Witness ==
    /\ EhPost("/cadastro")
    /\ req.form.senha = <<>>
    /\ req.form.nome = <<" ", "n">>
    /\ req.form.email # <<>>
    /\ ~Cadastrado(usuarios, strip(req.form.email))
    /\ usuarios # <<>>
    /\ resp = ErroDeValidacao("cadastro")

-----------------------------------------------------------------------------
(* C6: for every (name, email) that POST /salvar accepts, whatever rows    *)
(* are stored, the listing afterwards is the listing before plus one new   *)
(* row carrying that name and email, with an id no other row has.          *)
SalvarAceite ==
    /\ req'.method = "POST"
    /\ req'.route = "/salvar"
    /\ strip(req'.form.nome) # <<>>
    /\ strip(req'.form.email) # <<>>

\* the listing after is the listing before plus one row <<id, nome, email>>, id fresh
ListaMaisUm(nome, email) ==
    LET antes  == listar_clientes(clientes)
        depois == listar_clientes(clientes')
    IN /\ Len(depois) = Len(antes) + 1
       /\ SubSeq(depois, 1, Len(antes)) = antes
       /\ depois[Len(depois)][2] = nome
       /\ depois[Len(depois)][3] = email
       /\ \A i \in 1..Len(antes) : antes[i][1] # depois[Len(depois)][1]

C6_Original ==
    [][SalvarAceite => ListaMaisUm(req'.form.nome, req'.form.email)]_vars

\* C6 as amended: the new row carries the name and the email stripped of
\* surrounding whitespace
C6_ListingGrowsByOne ==
    [][SalvarAceite => ListaMaisUm(strip(req'.form.nome), strip(req'.form.email))]_vars

\* a padded name and email accepted a second time: two rows carry the pair
C6_Witness ==
    /\ EhPost("/salvar")
    /\ req.form = [nome |-> <<" ", "m">>, email |-> <<"b", " ">>]
    /\ resp.location = "listar"
    /\ Len(clientes) = 3
    /\ clientes[1].nome = <<"m">> /\ clientes[1].email = <<"b">>
    /\ clientes[3].nome = <<"m">> /\ clientes[3].email = <<"b">>

-----------------------------------------------------------------------------
(* C7: after a User was registered with email e and password p, a login    *)
(* POST with e and p2 establishes a Session and redirects to the Dashboard *)
(* if and only if p2 = p; for an email with no registered User no Session  *)
(* is established.                                                         *)
Estabelece(r, usuario) ==
    /\ r.resp.status = 302
    /\ r.resp.location = "dashboard"
    /\ TemSessao(r.session)
    /\ r.session["usuario_id"] = usuario.id

NaoEstabelece(r, sess) ==
    /\ r.resp.location # "dashboard"
    /\ r.session = sess

SemCadastroSemSessao ==
    \A c \in Clients, email \in FormEmails, p2 \in LoginSenhas :
        ~Cadastrado(usuarios, strip(email))
        => NaoEstabelece(login(usuarios, session[c], [email |-> email, senha |-> p2]),
                         session[c])

C7_Original ==
    /\ \A i \in 1..Len(usuarios), c \in Clients, p2 \in LoginSenhas :
          LET r == login(usuarios, session[c],
                         [email |-> registros[i].email, senha |-> p2])
          IN IF p2 = registros[i].senha
             THEN Estabelece(r, usuarios[i])
             ELSE NaoEstabelece(r, session[c])
    /\ SemCadastroSemSessao

\* C7 as amended: if and only if p2 and p are equal once stripped of
\* surrounding whitespace
C7_LoginIffPassword ==
    /\ \A i \in 1..Len(usuarios), c \in Clients, p2 \in LoginSenhas :
          LET r == login(usuarios, session[c],
                         [email |-> registros[i].email, senha |-> p2])
          IN IF strip(p2) = strip(registros[i].senha)
             THEN Estabelece(r, usuarios[i])
             ELSE NaoEstabelece(r, session[c])
    /\ SemCadastroSemSessao

\* the second User, registered with "p ", logged in with "p"
C7_Witness ==
    /\ EhPost("/login")
    /\ req.form.senha = <<"p">>
    /\ resp.location = "dashboard"
    /\ Len(usuarios) = 2
    /\ usuarios[2].email = strip(req.form.email)
    /\ registros[2].senha = <<"p", " ">>
    /\ session[req.client]["usuario_id"] = usuarios[2].id

-----------------------------------------------------------------------------
(* C8: GET /logout clears the Session whether or not the client had one:   *)
(* afterwards it holds neither user_id nor user_name, the response         *)
(* redirects to Login and the store is unchanged.                          *)
C8_LogoutClears ==
    [][(req'.method = "GET" /\ req'.route = "/logout")
       => /\ "usuario_id" \notin DOMAIN session'[req'.client]
          /\ "usuario_nome" \notin DOMAIN session'[req'.client]
          /\ resp'.status = 302
          /\ resp'.location = "login"
          /\ usuarios' = usuarios]_vars

\* a logout answered on a non-empty store while the other client stays logged in
C8_Witness ==
    /\ EhGet("/logout")
    /\ usuarios # <<>>
    /\ session[req.client] = EmptyDict
    /\ \E c \in Clients : c # req.client /\ TemSessao(session[c])

-----------------------------------------------------------------------------
(* C9: a client's Session is empty or holds both user_id and user_name,    *)
(* the id and name of one User row that was stored when a successful       *)
(* login created the Session; no other route writes them.                  *)
SessaoDe(usuario) == [usuario_id |-> usuario.id, usuario_nome |-> usuario.nome]

SessaoBemFormada(sess, table) ==
    \/ sess = EmptyDict
    \/ \E i \in 1..Len(table) : sess = SessaoDe(table[i])

C9_SessionOfStoredUser ==
    [][\A c \in Clients :
          /\ SessaoBemFormada(session'[c], usuarios')
          /\ (session'[c] # session[c] /\ session'[c] # EmptyDict)
             => /\ req'.client = c
                /\ req'.method = "POST"
                /\ req'.route = "/login"
                /\ resp'.location = "dashboard"
                /\ SessaoBemFormada(session'[c], usuarios)]_vars

\* a client logged in as the second User after being logged in as the first
C9_Witness ==
    /\ EhPost("/login")
    /\ resp.location = "dashboard"
    /\ Len(usuarios) = 2
    /\ session[req.client] = SessaoDe(usuarios[2])
    /\ \E c \in Clients : c # req.client /\ session[c] = SessaoDe(usuarios[1])

-----------------------------------------------------------------------------
(* C10: the only step that changes usuarios is a successful registration,  *)
(* which appends one row and leaves every stored row unchanged; login,     *)
(* dashboard, logout and rejected registrations leave the table unchanged. *)
CadastroFeito ==
    /\ req'.method = "POST"
    /\ req'.route = "/cadastro"
    /\ resp' = Redirect("login", "Cadastro realizado! Faca login.", "success")

C10_RowsImmutable ==
    [][IF CadastroFeito
       THEN /\ Len(usuarios') = Len(usuarios) + 1
            /\ SubSeq(usuarios', 1, Len(usuarios)) = usuarios
       ELSE usuarios' = usuarios]_vars

\* the second registration succeeded
C10_Witness ==
    /\ EhPost("/cadastro")
    /\ resp = Redirect("login", "Cadastro realizado! Faca login.", "success")
    /\ Len(usuarios) = 2
    /\ usuarios[2].email = strip(req.form.email)

-----------------------------------------------------------------------------
(* C11: of two concurrent registration POSTs that carry the same email,    *)
(* all fields non-empty, one inserts a row and the other is answered with  *)
(* the duplicate-email re-prompt, never with a failed request: a           *)
(* registration with valid fields, once answered, either inserted its row  *)
(* or was answered "already registered".                                  *)
C11_RaceRecovered ==
    (/\ EhPost("/cadastro")
     /\ strip(req.form.nome) # <<>>
     /\ strip(req.form.email) # <<>>
     /\ strip(req.form.senha) # <<>>
     /\ resp # Pendente)
    => \/ resp = Redirect("login", "Cadastro realizado! Faca login.", "success")
       \/ resp = EmailDuplicado

-----------------------------------------------------------------------------
(* C12: Sessions are independent per client: a login, failed login,        *)
(* logout or dashboard request by one client leaves the Session of every   *)
(* other client unchanged, in any interleaving of the clients' requests.   *)
C12_SessionsIndependent ==
    [][req'.route \in {"/login", "/logout", "/dashboard"}
       => \A c \in Clients : c # req'.client => session'[c] = session[c]]_vars

\* both clients logged in as the one stored User; one logged out and the
\* other still holds its Session
C12_Witness ==
    /\ EhGet("/logout")
    /\ Len(usuarios) = 1
    /\ ~logado[req.client]
    /\ \E c \in Clients :
          /\ c # req.client
          /\ logado[c]
          /\ session[c] = SessaoDe(usuarios[1])

-----------------------------------------------------------------------------
(* C13: a login POST that fails, on validation or on bad credentials,      *)
(* leaves the client's Session as it was: an authenticated client stays    *)
(* authenticated as the same User and a client without a Session stays     *)
(* without one; only a successful login replaces the Session's user_id     *)
(* and user_name.                                                          *)
LoginFalhou ==
    /\ req'.method = "POST"
    /\ req'.route = "/login"
    /\ resp' \in {ErroDeValidacao("login"),
                  Redirect("login", "Email ou senha incorretos!", "danger")}

LoginFeito ==
    /\ req'.method = "POST"
    /\ req'.route = "/login"
    /\ resp' = Redirect("dashboard", "Login realizado com sucesso!", "success")

\* user_id or user_name of c's Session has a new value after the step
SessaoSubstituida(c) ==
    \E k \in DOMAIN session'[c] :
        k \notin DOMAIN session[c] \/ session'[c][k] # session[c][k]

C13_FailedLoginKeepsSession ==
    [][/\ (req'.method = "POST" /\ req'.route = "/login") => (LoginFalhou \/ LoginFeito)
       /\ LoginFalhou => session' = session
       /\ \A c \in Clients : SessaoSubstituida(c) => (LoginFeito /\ req'.client = c)]_vars

\* a client logged in as the one stored User posted a login with an empty
\* password and holds the same Session
C13_Witness ==
    /\ EhPost("/login")
    /\ req.form.senha = <<>>
    /\ req.form.email = <<"a">>
    /\ resp = ErroDeValidacao("login")
    /\ Len(usuarios) = 1
    /\ logado[req.client]
    /\ session[req.client] = SessaoDe(usuarios[1])

====
